---- MODULE Spec2Model ----
(***************************************************************************)
(* Model of medical_app/views.py: the two JSON endpoints chat_api and      *)
(* initial_consultation_api.  One request is handled at a time; a request  *)
(* is received, the handler parses and validates it and builds the prompt, *)
(* the external generative API is called, and the answer (or the exception *)
(* caught by the handler's except clause) is relayed as a JSON response.   *)
(*                                                                         *)
(* Text taken from the request is a sequence of one-character strings, so  *)
(* that tag stripping and truncation are computed character by character.  *)
(* Fixed literals, exception messages and the text the external API        *)
(* returns are TLA+ strings.                                               *)
(***************************************************************************)
EXTENDS Integers, Sequences, FiniteSets, TLC

\* ---------------------------------------------------------------- bounds
MaxHist == 7
MaxContentLen == 510

\* ------------------------------------------------------ program constants
HISTORY_WINDOW == 6
CONTENT_LIMIT == 500

\* ------------------------------------------------------------ JSON values
JNull == [t |-> "null"]
JStr(s) == [t |-> "str", s |-> s]
JNum(n) == [t |-> "num", n |-> n]
JList(items) == [t |-> "list", items |-> items]
JObj(f) == [t |-> "obj", f |-> f]
Absent == [t |-> "absent"]

\* a JSON object holding the fields of rec that are not Absent
ObjOf(rec) == JObj([k \in {x \in DOMAIN rec : rec[x].t # "absent"} |-> rec[k]])

Rep(c, n) == [i \in 1..n |-> c]

\* ------------------------------------------------------ Python semantics
\* truth value of a decoded JSON value (the operand of `not` / `if`)
Truthy(v) ==
    CASE v.t = "null" -> FALSE
      [] v.t = "str"  -> Len(v.s) > 0
      [] v.t = "num"  -> v.n # 0
      [] v.t = "list" -> Len(v.items) > 0
      [] v.t = "obj"  -> DOMAIN v.f # {}

\* dict.get(key, default)
Get(o, k, d) == IF k \in DOMAIN o.f THEN o.f[k] ELSE d

\* only a dict has .get; anything else raises AttributeError
HasGet(v) == v.t = "obj"

\* str(v) as an f-string interpolates it
Format(v) ==
    CASE v.t = "str"  -> v.s
      [] v.t = "null" -> <<"N", "o", "n", "e">>
      [] v.t = "num"  -> <<(<<"0", "1", "2", "3", "4", "5", "6", "7", "8", "9">>)[v.n + 1]>>

IsStr(v, s) == v.t = "str" /\ v.s = s

\* json.loads(request.body)
json_loads(body) ==
    IF body.wf THEN [ok |-> TRUE, data |-> body.doc, msg |-> ""]
    ELSE [ok |-> FALSE, data |-> JNull, msg |-> "Expecting value: line 1 column 1 (char 0)"]

SetMin(S) == CHOOSE x \in S : \A y \in S : x <= y

\* position of the '>' that closes a tag opened at i, or 0: the regular
\* expression <[^>]+> needs at least one character other than '>' between
TagEnd(s, i) ==
    LET js == {j \in (i + 1)..Len(s) : s[j] = ">"}
    IN  IF js = {} THEN 0
        ELSE IF SetMin(js) >= i + 2 THEN SetMin(js) ELSE 0

\* the scan of re.sub: copy up to the leftmost tag at or after from, skip the
\* tag, go on after it
RECURSIVE StripFrom(_, _)
StripFrom(s, from) ==
    LET starts == {i \in from..Len(s) : s[i] = "<" /\ TagEnd(s, i) # 0}
    IN  IF starts = {} THEN SubSeq(s, from, Len(s))
        ELSE SubSeq(s, from, SetMin(starts) - 1)
                \o StripFrom(s, TagEnd(s, SetMin(starts)) + 1)

\* re.sub(r'<[^>]+>', '', content)
StripTags(s) == StripFrom(s, 1)

\* clean_content[:500] + '...' if len(clean_content) > 500 else clean_content
LimitLength(s) ==
    IF Len(s) > CONTENT_LIMIT
    THEN SubSeq(s, 1, CONTENT_LIMIT) \o <<".", ".", ".">>
    ELSE s


\* ------------------------------------------------------- prompt building
UserRole == <<"u", "s", "e", "r">>
AssistantRole == <<"a", "s", "s", "i", "s", "t", "a", "n", "t">>
NotSpecified == JStr(<<"N", "o", "t", " ", "s", "p", "e", "c", "i", "f", "i", "e", "d">>)
NoneProvided == JStr(<<"N", "o", "n", "e", " ", "p", "r", "o", "v", "i", "d", "e", "d">>)
EmptyStr == JStr(<<>>)
EmptyList == JList(<<>>)
EmptyDict == JObj([k \in {} |-> JNull])

IntakeKeys == {"ageRange", "sex", "symptom", "duration", "severity", "context"}

IntakeDefault(k) == IF k = "context" THEN NoneProvided ELSE NotSpecified

PyType(v) ==
    CASE v.t = "null" -> "NoneType"
      [] v.t = "str"  -> "str"
      [] v.t = "num"  -> "int"
      [] v.t = "list" -> "list"
      [] v.t = "obj"  -> "dict"

\* the message of the AttributeError raised by v.get on a non-dict
NoGet(v) == "'" \o PyType(v) \o "' object has no attribute 'get'"

Ok(v) == [ok |-> TRUE, val |-> v, msg |-> ""]
Raise(m) == [ok |-> FALSE, val |-> <<>>, msg |-> m]

\* the PATIENT INFORMATION block: six intake_data.get(key, default) lookups
patient_information(intake_data) ==
    IF ~HasGet(intake_data) THEN Raise(NoGet(intake_data))
    ELSE Ok([k \in IntakeKeys |-> Format(Get(intake_data, k, IntakeDefault(k)))])

Max(a, b) == IF a > b THEN a ELSE b

recent_history_first(items) ==
    [k \in 1..(IF Len(items) < HISTORY_WINDOW THEN Len(items) ELSE HISTORY_WINDOW) |->
        [src |-> k, msg |-> items[k]]]

\* conversation_history[-6:], each entry with its position in the history
recent_history(items) ==
    LET first == Max(1, Len(items) - HISTORY_WINDOW + 1)
    IN  [k \in 1..(Len(items) - first + 1) |->
            [src |-> first + k - 1, msg |-> items[first + k - 1]]]

history_line_lenient(e) ==
    IF ~HasGet(e.msg) THEN Ok(<<>>)
    ELSE LET role == Get(e.msg, "role", EmptyStr)
             content == Get(e.msg, "content", EmptyStr)
         IN  IF IsStr(role, UserRole)
             THEN Ok(<<[src |-> e.src, who |-> "Patient", text |-> Format(content)]>>)
             ELSE IF IsStr(role, AssistantRole)
             THEN IF content.t # "str"
                  THEN Raise("expected string or bytes-like object")
                  ELSE Ok(<<[src |-> e.src, who |-> "You",
                             text |-> LimitLength(StripTags(content.s))]>>)
             ELSE Ok(<<>>)

\* one iteration of `for msg in recent_history`: the line it appends to
\* system_context (none for a role other than user/assistant), or the
\* exception it raises
history_line(e) ==
    IF ~HasGet(e.msg) THEN Raise(NoGet(e.msg))
    ELSE LET role == Get(e.msg, "role", EmptyStr)
             content == Get(e.msg, "content", EmptyStr)
         IN  IF IsStr(role, UserRole)
             THEN Ok(<<[src |-> e.src, who |-> "Patient", text |-> Format(content)]>>)
             ELSE IF IsStr(role, AssistantRole)
             THEN IF content.t # "str"
                  THEN Raise("expected string or bytes-like object")
                  ELSE Ok(<<[src |-> e.src, who |-> "You",
                             text |-> LimitLength(StripTags(content.s))]>>)
             ELSE Ok(<<>>)

RECURSIVE history_loop(_, _, _)
history_loop(recent, k, acc) ==
    IF k > Len(recent) THEN Ok(acc)
    ELSE LET r == history_line(recent[k])
         IN  IF r.ok THEN history_loop(recent, k + 1, acc \o r.val) ELSE r

\* the RECENT CONVERSATION block for a truthy conversation_history
recent_conversation(conversation_history) ==
    CASE conversation_history.t = "list" ->
            history_loop(recent_history(conversation_history.items), 1, <<>>)
      [] conversation_history.t = "str" -> Raise(NoGet(conversation_history))
      [] conversation_history.t = "num" -> Raise("'int' object is not subscriptable")
      [] conversation_history.t = "obj" -> Raise("unhashable type: 'slice'")

NoLines == [present |-> FALSE, lines |-> <<>>]
NoIntake == [present |-> FALSE, fields |-> <<>>]
NoPrompt == [built |-> FALSE, intake |-> NoIntake, history |-> NoLines, message |-> <<>>]

\* system_context and full_prompt of chat_api
chat_prompt(user_message, conversation_history, intake_data) ==
    LET pi == IF Truthy(intake_data) THEN patient_information(intake_data) ELSE Ok(<<>>)
        rc == IF Truthy(conversation_history)
              THEN recent_conversation(conversation_history) ELSE Ok(<<>>)
    IN  IF ~pi.ok THEN pi
        ELSE IF ~rc.ok THEN rc
        ELSE Ok([built |-> TRUE,
                 intake |-> IF Truthy(intake_data)
                            THEN [present |-> TRUE, fields |-> pi.val] ELSE NoIntake,
                 history |-> IF Truthy(conversation_history)
                             THEN [present |-> TRUE, lines |-> rc.val] ELSE NoLines,
                 message |-> Format(user_message)])

\* prompt of initial_consultation_api
consultation_prompt(intake_data) ==
    LET pi == patient_information(intake_data)
    IN  IF ~pi.ok THEN pi
        ELSE Ok([built |-> TRUE, intake |-> [present |-> TRUE, fields |-> pi.val],
                 history |-> NoLines, message |-> <<>>])


\* ------------------------------------------------------------- responses
JsonResponse(data, status) == [code |-> status, body |-> data]

NoResp == [code |-> 0, body |-> [none |-> ""]]

is_post_or_put(m) == m \in {"POST", "PUT"}

\* `if request.method == 'POST'`
is_post(m) == m = "POST"

no_message_null_only(user_message) == user_message.t = "null"

\* `if not user_message`
no_message(user_message) == ~Truthy(user_message)

no_intake_data_null_only(intake_data) == intake_data.t = "null"

\* `if not intake_data`
no_intake_data(intake_data) == ~Truthy(intake_data)

\* `if response and response.text`
has_text(response) == response.kind = "text" /\ response.text # ""

chat_success_str(response) ==
    JsonResponse([response |-> "<GenerateContentResponse>", status |-> "success"], 200)

\* the success envelope of chat_api
chat_success(response) ==
    JsonResponse([response |-> response.text, status |-> "success"], 200)

chat_no_response ==
    JsonResponse([error |-> "No response generated from AI", status |-> "error"], 500)

chat_error_generic(e) ==
    JsonResponse([error |-> "An error occurred while processing your request",
                  details |-> "Internal error", status |-> "error"], 500)

\* the envelope built by chat_api's except clause; e is str(e)
chat_error(e) ==
    JsonResponse([error |-> "An error occurred while processing your request",
                  details |-> e, status |-> "error"], 500)

consultation_success(response) ==
    JsonResponse([response |-> response.text, status |-> "success"], 200)

consultation_no_response ==
    JsonResponse([error |-> "No response generated", status |-> "error"], 500)

consultation_error(e) ==
    JsonResponse([error |-> "An error occurred", details |-> e, status |-> "error"], 500)

\* what a handler does before the external call: respond at once, raise into
\* its except clause, or go on to the call with the prompt it built
Respond(parsed, r) == [next |-> "done", parsed |-> parsed, resp |-> r, exc |-> "", prompt |-> NoPrompt]
Throw(m) == [next |-> "except", parsed |-> TRUE, resp |-> NoResp, exc |-> m, prompt |-> NoPrompt]
Proceed(p) == [next |-> "call", parsed |-> TRUE, resp |-> NoResp, exc |-> "", prompt |-> p]

\* chat_api up to the line before model.generate_content
chat_api_entry(m, b) ==
    IF ~is_post(m) THEN Respond(FALSE, JsonResponse([error |-> "Method not allowed"], 405))
    ELSE LET parse == json_loads(b)
             data == parse.data
         IN  IF ~parse.ok THEN Throw(parse.msg)
             ELSE IF ~HasGet(data) THEN Throw(NoGet(data))
             ELSE LET user_message == Get(data, "message", EmptyStr)
                      conversation_history == Get(data, "history", EmptyList)
                      intake_data == Get(data, "intake_data", EmptyDict)
                      built == chat_prompt(user_message, conversation_history, intake_data)
                  IN  IF no_message(user_message)
                      THEN Respond(TRUE, JsonResponse([error |-> "No message provided"], 400))
                      ELSE IF ~built.ok THEN Throw(built.msg)
                      ELSE Proceed(built.val)

\* initial_consultation_api up to the line before model.generate_content
initial_consultation_api_entry(m, b) ==
    IF ~is_post(m) THEN Respond(FALSE, JsonResponse([error |-> "Method not allowed"], 405))
    ELSE LET parse == json_loads(b)
             data == parse.data
         IN  IF ~parse.ok THEN Throw(parse.msg)
             ELSE IF ~HasGet(data) THEN Throw(NoGet(data))
             ELSE LET intake_data == Get(data, "intake_data", EmptyDict)
                      built == consultation_prompt(intake_data)
                  IN  IF no_intake_data(intake_data)
                      THEN Respond(TRUE, JsonResponse([error |-> "No intake data provided"], 400))
                      ELSE IF ~built.ok THEN Throw(built.msg)
                      ELSE Proceed(built.val)

\* ------------------------------------------------------------ the inputs
Methods == {"GET", "POST", "PUT"}

Short == <<"h", "i">>
Html == <<"<", "b", ">", "x", "<", "/", "b", ">">>
Tagged(n) == <<"<", "i", ">">> \o Rep("a", n)

Contents ==
    {Short, Html, Rep("a", CONTENT_LIMIT), Rep("a", CONTENT_LIMIT + 1),
     Rep("a", MaxContentLen), Tagged(CONTENT_LIMIT), Tagged(CONTENT_LIMIT + 1)}

Entry(role, content) == JObj([role |-> JStr(role), content |-> content])

BaseEntries == {Entry(UserRole, JStr(Short)), Entry(AssistantRole, JStr(Html))}

SpecialEntries ==
    {Entry(r, JStr(c)) : r \in {UserRole, AssistantRole}, c \in Contents}
        \cup {Entry(<<"s", "y", "s", "t", "e", "m">>, JStr(Short)), Entry(AssistantRole, JNull),
              Entry(UserRole, JNull), EmptyDict, JStr(Short), JNull}

\* histories of up to MaxHist entries: base entries with at most one special
\* entry, at any position
Histories ==
    UNION {{[i \in 1..n |-> IF i = p THEN e ELSE b] :
                p \in 0..n, e \in SpecialEntries, b \in BaseEntries} : n \in 0..MaxHist}

HistoryValues ==
    {Absent, JNull, JStr(Short), JNum(3), Entry(UserRole, JStr(Short))}
        \cup {JList(h) : h \in Histories}

MessageValues == {Absent, JNull, EmptyStr, JStr(Short)}

IntakeValues ==
    {Absent, EmptyDict, JStr(Short),
     JObj([symptom |-> JStr(Short), severity |-> JNum(4), context |-> JNull])}

NonObjects == {JNull, JNum(1), JStr(Short), EmptyList}

Malformed == [wf |-> FALSE, doc |-> JNull]
Json(d) == [wf |-> TRUE, doc |-> d]

ChatBodies ==
    {Malformed} \cup {Json(d) : d \in NonObjects}
        \cup {Json(ObjOf([message |-> m, history |-> h, intake_data |-> i])) :
                m \in MessageValues, h \in HistoryValues, i \in IntakeValues}

ConsultationBodies ==
    {Malformed} \cup {Json(d) : d \in NonObjects}
        \cup {Json(ObjOf([intake_data |-> i])) :
                i \in IntakeValues \cup {JNull, EmptyList, JList(<<JStr(Short)>>), JNum(2)}}

\* what model.generate_content can do: return a response with a text, return
\* nothing, or raise an exception whose str() is msg
ApiTexts == {"", "<p>Rest and drink fluids.</p>"}
ApiErrors == {"", "API Error"}
NoResult == [kind |-> "pending", text |-> "", msg |-> ""]
ApiOutcomes ==
    {[kind |-> "text", text |-> t, msg |-> ""] : t \in ApiTexts}
        \cup {[kind |-> "none", text |-> "", msg |-> ""]}
        \cup {[kind |-> "raise", text |-> "", msg |-> m] : m \in ApiErrors}

\* ------------------------------------------------------ the state machine
VARIABLES pc, endpoint, method, body, prompt, api_calls, parsed, api_result, exc, resp

vars == <<pc, endpoint, method, body, prompt, api_calls, parsed, api_result, exc, resp>>

Init ==
    /\ pc = "idle"
    /\ endpoint = "none"
    /\ method = "none"
    /\ body = Malformed
    /\ prompt = NoPrompt
    /\ api_calls = 0
    /\ parsed = FALSE
    /\ api_result = NoResult
    /\ exc = ""
    /\ resp = NoResp

\* the URL dispatcher hands a request to one of the two API views
Receive ==
    /\ pc = "idle"
    /\ \E ep \in {"chat", "consultation"}, m \in Methods :
         /\ endpoint' = ep
         /\ method' = m
         /\ \E b \in IF ep = "chat" THEN ChatBodies ELSE ConsultationBodies : body' = b
    /\ pc' = "entry"
    /\ prompt' = NoPrompt
    /\ api_calls' = 0
    /\ parsed' = FALSE
    /\ api_result' = NoResult
    /\ exc' = ""
    /\ resp' = NoResp

Enter(r) ==
    /\ pc' = r.next
    /\ parsed' = r.parsed
    /\ resp' = r.resp
    /\ exc' = r.exc
    /\ prompt' = r.prompt
    /\ UNCHANGED <<endpoint, method, body, api_calls, api_result>>

\* model.generate_content(prompt): exactly one call, whose outcome is the
\* environment's choice
Generate ==
    /\ api_calls' = api_calls + 1
    /\ \E o \in ApiOutcomes :
         /\ api_result' = o
         /\ pc' = IF o.kind = "raise" THEN "except" ELSE "relay"
         /\ exc' = o.msg
    /\ UNCHANGED <<endpoint, method, body, prompt, parsed, resp>>

Answer(r) ==
    /\ resp' = r
    /\ pc' = "done"
    /\ UNCHANGED <<endpoint, method, body, prompt, api_calls, parsed, api_result, exc>>

chat_api_begin ==
    /\ pc = "entry" /\ endpoint = "chat"
    /\ Enter(chat_api_entry(method, body))

chat_api_generate_retry ==
    /\ pc = "call" /\ endpoint = "chat"
    /\ api_calls < 2
    /\ api_calls' = api_calls + 1
    /\ \E o \in ApiOutcomes :
         /\ api_result' = o
         /\ pc' = IF o.kind = "raise" THEN "call" ELSE "relay"
         /\ exc' = o.msg
    /\ UNCHANGED <<endpoint, method, body, prompt, parsed, resp>>

chat_api_generate ==
    /\ pc = "call" /\ endpoint = "chat"
    /\ Generate

chat_api_relay ==
    /\ pc = "relay" /\ endpoint = "chat"
    /\ Answer(IF has_text(api_result) THEN chat_success(api_result) ELSE chat_no_response)

chat_api_except ==
    /\ pc = "except" /\ endpoint = "chat"
    /\ Answer(chat_error(exc))

initial_consultation_api_begin ==
    /\ pc = "entry" /\ endpoint = "consultation"
    /\ Enter(initial_consultation_api_entry(method, body))

initial_consultation_api_generate ==
    /\ pc = "call" /\ endpoint = "consultation"
    /\ Generate

initial_consultation_api_relay ==
    /\ pc = "relay" /\ endpoint = "consultation"
    /\ Answer(IF has_text(api_result) THEN consultation_success(api_result)
              ELSE consultation_no_response)

initial_consultation_api_except ==
    /\ pc = "except" /\ endpoint = "consultation"
    /\ Answer(consultation_error(exc))

\* the response is sent; nothing of the request is kept
Send ==
    /\ pc = "done"
    /\ pc' = "idle"
    /\ endpoint' = "none"
    /\ method' = "none"
    /\ body' = Malformed
    /\ prompt' = NoPrompt
    /\ api_calls' = 0
    /\ parsed' = FALSE
    /\ api_result' = NoResult
    /\ exc' = ""
    /\ resp' = NoResp

Next ==
    \/ Receive
    \/ chat_api_begin
    \/ chat_api_generate
    \/ chat_api_relay
    \/ chat_api_except
    \/ initial_consultation_api_begin
    \/ initial_consultation_api_generate
    \/ initial_consultation_api_relay
    \/ initial_consultation_api_except
    \/ Send

Spec == Init /\ [][Next]_vars

TypeOK ==
    /\ pc \in {"idle", "entry", "call", "relay", "except", "done"}
    /\ api_calls \in 0..2


\* ---------------------------------------------------------- the request,
\* as the claims describe it
Keys == DOMAIN resp.body
Handled == pc \notin {"idle", "entry"}
Done == pc = "done"
IsObject == body.wf /\ body.doc.t = "obj"
Field(k, d) == Get(body.doc, k, d)
MessageMissing == "message" \notin DOMAIN body.doc.f \/ body.doc.f["message"] = EmptyStr
IntakeMissing == ~Truthy(Field("intake_data", EmptyDict))
HasHistoryList == "history" \in DOMAIN body.doc.f /\ body.doc.f["history"].t = "list"
HistoryItems == body.doc.f["history"].items
Window == {i \in 1..Len(HistoryItems) : i > Len(HistoryItems) - HISTORY_WINDOW}
RoleOf(e) == IF e.t = "obj" THEN Get(e, "role", EmptyStr) ELSE EmptyStr
Speaks(e) == IsStr(RoleOf(e), UserRole) \/ IsStr(RoleOf(e), AssistantRole)
Lines == prompt.history.lines

\* C1: every response of either endpoint carries 'response' and 'status', or
\* 'error' and 'status'.
C1_Envelope ==
    Done => \/ {"response", "status"} \subseteq Keys
            \/ {"error", "status"} \subseteq Keys

\* C2: a POST to chat_api whose body is an object without a message, or with
\* an empty one, is answered 400 with an 'error' field, whatever history and
\* intake_data hold, and the external API is never called for it.
C2_MissingMessage ==
    (Handled /\ endpoint = "chat" /\ method = "POST" /\ IsObject /\ MessageMissing)
        => /\ Done
           /\ resp.code = 400
           /\ "error" \in Keys
           /\ api_calls = 0

C2_Witness ==
    /\ Done /\ endpoint = "chat" /\ method = "POST" /\ IsObject
    /\ "message" \notin DOMAIN body.doc.f
    /\ HasHistoryList /\ Len(HistoryItems) >= 2
    /\ "intake_data" \in DOMAIN body.doc.f
    /\ resp.code = 400

\* C3: a request whose method is not POST is answered 405 by both endpoints,
\* its body is not parsed and the external API is not called, whatever the
\* body is.
C3_MethodNotAllowed ==
    (Handled /\ method # "POST")
        => /\ Done
           /\ resp.code = 405
           /\ ~parsed
           /\ api_calls = 0

C3_Witness ==
    /\ Done /\ method = "GET" /\ ~body.wf /\ endpoint = "consultation"
    /\ resp.code = 405

\* C4 as stated: when the external call of a valid POST returns a text T, the
\* response is 200 with 'response' = T and 'status' = "success".
C4_AnyText ==
    (Done /\ method = "POST" /\ api_calls = 1 /\ api_result.kind = "text")
        => /\ resp.code = 200
           /\ {"response", "status"} \subseteq Keys
           /\ resp.body.response = api_result.text
           /\ resp.body.status = "success"

\* C4 amended: when the external call of a valid POST returns a non-empty
\* text T, the response is 200 with 'response' exactly T and 'status' =
\* "success"; an empty text is answered 500 with 'status' = "error".
C4_NonEmptyText ==
    (Done /\ method = "POST" /\ api_calls = 1 /\ api_result.kind = "text")
        => IF api_result.text # ""
           THEN /\ resp.code = 200
                /\ Keys = {"response", "status"}
                /\ resp.body.response = api_result.text
                /\ resp.body.status = "success"
           ELSE /\ resp.code = 500
                /\ Keys = {"error", "status"}
                /\ resp.body.status = "error"

C4_Witness ==
    /\ Done /\ endpoint = "chat" /\ api_result.kind = "text" /\ api_result.text # ""
    /\ resp.code = 200 /\ resp.body.response = api_result.text

\* C5 as stated: when the external call raises, the response is 500 with
\* 'status' = "error" and a non-empty 'details', for every exception.
C5_DetailsPopulated ==
    (Done /\ api_result.kind = "raise")
        => /\ resp.code = 500
           /\ {"status", "details"} \subseteq Keys
           /\ resp.body.status = "error"
           /\ resp.body.details # ""

\* C5 amended: when the external call raises, the response is 500 with
\* 'status' = "error" and a 'details' field equal to str() of the exception,
\* hence non-empty whenever the exception has a message.
C5_DetailsIsMessage ==
    (Done /\ api_result.kind = "raise")
        => /\ resp.code = 500
           /\ Keys = {"error", "details", "status"}
           /\ resp.body.status = "error"
           /\ resp.body.details = api_result.msg

C5_Witness ==
    /\ Done /\ api_result.kind = "raise" /\ api_result.msg # ""
    /\ endpoint = "chat" /\ resp.code = 500 /\ resp.body.details = api_result.msg


\* what makes prompt building raise before the external call, read off the
\* request: a truthy intake_data that is not an object; a truthy history that
\* is not a list; among the last six entries of a history list, an entry that
\* is not an object or an assistant entry whose content is not a string
NonObjectIn(S) == \E i \in S : HistoryItems[i].t # "obj"
BadAssistantIn(S) ==
    \E i \in S : /\ HistoryItems[i].t = "obj"
                 /\ IsStr(RoleOf(HistoryItems[i]), AssistantRole)
                 /\ Get(HistoryItems[i], "content", EmptyStr).t # "str"
BadIntake ==
    Truthy(Field("intake_data", EmptyDict)) /\ Field("intake_data", EmptyDict).t # "obj"
BadHistory ==
    /\ Truthy(Field("history", EmptyList))
    /\ \/ ~HasHistoryList
       \/ NonObjectIn(Window)
       \/ BadAssistantIn(Window)
RequiredMissing ==
    IF endpoint = "chat" THEN ~Truthy(Field("message", EmptyStr)) ELSE IntakeMissing
PromptRaises == IF endpoint = "chat" THEN BadIntake \/ BadHistory ELSE BadIntake

\* C6 as stated: a POST ends with 200, 400 or 500; malformed JSON, a JSON
\* value that is not an object and a history entry that is not an object all
\* give 500; only a missing required field gives 400.
C6_Post500 ==
    (Done /\ method = "POST")
        => /\ resp.code \in {200, 400, 500}
           /\ ~body.wf => resp.code = 500 /\ "details" \in Keys
           /\ (body.wf /\ ~IsObject) => resp.code = 500 /\ "details" \in Keys
           /\ (endpoint = "chat" /\ IsObject /\ HasHistoryList
                    /\ NonObjectIn(1..Len(HistoryItems)))
                => resp.code = 500
           /\ resp.code = 400 => IsObject /\ RequiredMissing

\* C6 amended: a POST ends with 200, 400 or 500; malformed JSON and a JSON
\* value that is not an object give 500 through the except clause; a history
\* entry that is not an object gives 500 when the message is present and the
\* entry is among the last six (with the message missing the answer is 400,
\* and an older entry is never looked at); only a missing required field
\* gives 400.
C6_Post500Window ==
    (Done /\ method = "POST")
        => /\ resp.code \in {200, 400, 500}
           /\ ~body.wf => resp.code = 500 /\ "details" \in Keys
           /\ (body.wf /\ ~IsObject) => resp.code = 500 /\ "details" \in Keys
           /\ (endpoint = "chat" /\ IsObject /\ HasHistoryList /\ ~RequiredMissing
                    /\ NonObjectIn(Window))
                => resp.code = 500 /\ "details" \in Keys /\ api_calls = 0
           /\ (endpoint = "chat" /\ IsObject /\ HasHistoryList /\ ~RequiredMissing
                    /\ ~PromptRaises /\ has_text(api_result))
                => resp.code = 200
           /\ resp.code = 400 <=> IsObject /\ RequiredMissing

C6_Witness ==
    /\ Done /\ method = "POST" /\ endpoint = "chat" /\ IsObject /\ HasHistoryList
    /\ ~RequiredMissing /\ ~BadIntake
    /\ NonObjectIn(Window)
    /\ resp.code = 500 /\ api_calls = 0

\* C7: the prompt of chat_api holds lines only for the last six history
\* entries (all of them when there are six or fewer), in their order; no
\* earlier entry contributes.
C7_LastSix ==
    (prompt.built /\ endpoint = "chat" /\ HasHistoryList)
        => /\ Len(Lines) <= 6
           /\ \A k \in 1..Len(Lines) :
                /\ Lines[k].src \in 1..Len(HistoryItems)
                /\ Lines[k].src > Len(HistoryItems) - 6
                /\ IsStr(RoleOf(HistoryItems[Lines[k].src]), UserRole)
                     => /\ Lines[k].who = "Patient"
                        /\ Lines[k].text
                             = Format(Get(HistoryItems[Lines[k].src], "content", EmptyStr))
                /\ IsStr(RoleOf(HistoryItems[Lines[k].src]), AssistantRole)
                     => Lines[k].who = "You"
           /\ \A k, l \in 1..Len(Lines) : k < l => Lines[k].src < Lines[l].src
           /\ {Lines[k].src : k \in 1..Len(Lines)}
                = {i \in 1..Len(HistoryItems) :
                     i > Len(HistoryItems) - 6 /\ Speaks(HistoryItems[i])}

C7_Witness ==
    /\ Done /\ prompt.built /\ endpoint = "chat" /\ HasHistoryList
    /\ Len(HistoryItems) > HISTORY_WINDOW
    /\ Len(Lines) = HISTORY_WINDOW
    /\ Lines[1].src = Len(HistoryItems) - HISTORY_WINDOW + 1
    /\ Speaks(HistoryItems[1])

\* C8: every history line of the prompt holds at most 500 characters of its
\* entry's content plus the '...' marker, for user and assistant entries
\* alike.
C8_EveryRoleLimited ==
    (prompt.built /\ endpoint = "chat" /\ api_calls = 1)
        => \A k \in 1..Len(Lines) : Len(Lines[k].text) <= CONTENT_LIMIT + 3

\* C9: a POST to initial_consultation_api whose body is an object without
\* intake_data, or with an empty one, is answered 400 with an 'error' field
\* and the external API is never called for it.
C9_MissingIntake ==
    (Handled /\ endpoint = "consultation" /\ method = "POST" /\ IsObject /\ IntakeMissing)
        => /\ Done
           /\ resp.code = 400
           /\ "error" \in Keys
           /\ api_calls = 0

C9_Witness ==
    /\ Done /\ endpoint = "consultation" /\ method = "POST" /\ IsObject
    /\ "intake_data" \in DOMAIN body.doc.f
    /\ body.doc.f["intake_data"] = EmptyDict
    /\ resp.code = 400

\* C10 as stated: at most one external call per request; exactly one when
\* the request is a POST that passes the required-field check; none when the
\* answer is 400 or 405; none after a failed or empty call; the call comes
\* before the response.
C10_OnceIfFieldPresent ==
    /\ api_calls <= 1
    /\ (Done /\ method = "POST" /\ IsObject /\ ~RequiredMissing) => api_calls = 1
    /\ (Done /\ resp.code \in {400, 405}) => api_calls = 0
    /\ ~Done => resp = NoResp

\* C10 amended: at most one external call per request; exactly one when the
\* request is a POST that passes the required-field check and whose prompt is
\* built without an exception, none when prompt building raises (the answer
\* is then 500); none when the answer is 400 or 405; none after a failed or
\* empty call; the call comes before the response.
C10_OnceIfPromptBuilt ==
    /\ api_calls <= 1
    /\ (Done /\ method = "POST" /\ IsObject /\ ~RequiredMissing /\ ~PromptRaises)
            => api_calls = 1 /\ api_result.kind # "pending"
    /\ (Done /\ method = "POST" /\ IsObject /\ ~RequiredMissing /\ PromptRaises)
            => api_calls = 0 /\ resp.code = 500
    /\ (Done /\ resp.code \in {400, 405}) => api_calls = 0
    /\ ~Done => resp = NoResp
    /\ pc = "call" => api_calls = 0
    /\ pc = "relay" => api_calls = 1

C10_Witness ==
    /\ Done /\ api_calls = 1 /\ api_result.kind = "raise"
    /\ endpoint = "chat" /\ HasHistoryList /\ Len(HistoryItems) >= 1
    /\ resp.code = 500

====
